---- MODULE Spec2Model ----
(***************************************************************************)
(* Model of the health monitor and of the admin console of                 *)
(* arshshtty/system-admin:                                                 *)
(*   scripts/monitoring/health-check.py  (HealthChecker)                   *)
(*   scripts/monitoring/web-dashboard.py (api_current, api_history)        *)
(*   admin.py                            (DockerCleanupScreen)             *)
(*                                                                         *)
(* The specifications of this module:                                      *)
(*   SpecEval       one call of HealthChecker.check_server, over a wide    *)
(*                  set of collector return values;                        *)
(*   SpecRun        one process started with --once: run_checks over      *)
(*                  every inventory of up to MaxServers entries;           *)
(*   Spec           main / run_continuous / run_checks / save_results     *)
(*                  and the wall clock, runs repeating;                    *)
(*   SpecDashboard  Spec together with the dashboard's /api/current;       *)
(*   SpecSignal     Spec together with a stop signal (SIGINT);             *)
(*   SpecMain       a --once process from the construction of the          *)
(*                  HealthChecker on, the inventory file good or bad;      *)
(*   SpecCollect    one call of check_server, collector by collector,      *)
(*                  over what the remote commands print;                   *)
(*   SpecHistory    a continuous monitor of one host with the dashboard's  *)
(*                  /api/current and /api/history;                         *)
(*   SpecRunFair    SpecRun with weak fairness of the steps of the run;     *)
(*   SpecReport     SpecRun over hosts that answer and hosts that do not;   *)
(*   SpecCleanup    the Docker cleanup screen of admin.py and the command   *)
(*                  screen it pushes.                                       *)
(***************************************************************************)
EXTENDS Integers, Sequences, FiniteSets, TLC

(***************************************************************************)
(* Bounds of the model.                                                    *)
(***************************************************************************)
\* longest inventory (self.servers) of SpecEval and SpecRun
MaxServers == 2
\* longest inventory of Spec and SpecDashboard, where runs repeat
MaxStoreServers == 1
\* most rows the disk collector returns
MaxDisks == 2
\* the services get_services_status asks for; the code's default list has 5
\* (health-check.py:284), scaled down here
MaxServices == 1
\* most records api_history answers with; the code's value is 100
\* (web-dashboard.py:578), scaled down here
HistoryLimit == 2
\* the retention cap of save_results; the code's value is 1000
\* (health-check.py:416-417), scaled down here
RetentionCap == 2
\* last second of the wall clock: RetentionCap + 1 history names exist
MaxTime == RetentionCap
\* most run_checks calls of one process: one more than the cap keeps
MaxRuns == RetentionCap + 1

(***************************************************************************)
(* Thresholds of check_server.                                             *)
(***************************************************************************)
CpuWarn == 80
MemWarn == 85
DiskWarn == 85
DiskCritical == 95

(***************************************************************************)
(* Values.  Python's None is the empty tuple, a present value x is <<x>>.  *)
(***************************************************************************)
None == << >>
Some(x) == << x >>

\* Python floats with one decimal (CPU percent, memory percent) are integers
\* in tenths of a percent: 85.1 is 851.
\* get_cpu_usage: None when the remote command failed or did not parse
CpuValues == {None, Some(0), Some(800), Some(801)}
\* get_memory_usage, line 188: round((used / total) * 100, 1), in tenths
MemPercent(used, total) == (2 * used * 1000 + total) \div (2 * total)
\* get_memory_usage: the dict of a host with 1000 MB, None when the remote
\* command failed or did not parse
MemValues == {None} \cup {Some([total |-> 1000, used |-> u, free |-> 1000 - u,
                                 percent |-> MemPercent(u, 1000)]) : u \in {850, 851}}
Mounts == {"/", "/data"}
DiskPercents == {85, 86, 95, 96}
DiskRow == [mount : Mounts, percent : DiskPercents]
RECURSIVE SeqsUpTo(_, _)
SeqsUpTo(S, n) ==
    IF n = 0 THEN {<< >>}
    ELSE LET shorter == SeqsUpTo(S, n - 1)
         IN  shorter \cup {Append(s, x) : s \in {t \in shorter : Len(t) = n - 1}, x \in S}
\* get_disk_usage returns None instead of an empty list
DiskValues == {None} \cup {Some(d) : d \in SeqsUpTo(DiskRow, MaxDisks) \ {<< >>}}
\* get_uptime never returns None: it falls back to "Unknown"
UptimeValues == {"Unknown", "up 2 days"}
LoadValues == {None, Some([min1 |-> 10, min5 |-> 5, min15 |-> 1])}
DockerValues == {None, Some([total |-> 1, running |-> 1, stopped |-> 0])}
ServicesValues == {None, Some(<<[name |-> "ssh", status |-> "active", running |-> TRUE]>>)}

\* what the seven collectors return for one host (check_server, lines 325-331)
MetricBundles ==
    [uptime : UptimeValues, cpu : CpuValues, memory : MemValues, disk : DiskValues,
     load : LoadValues, docker : DockerValues, services : ServicesValues]

\* result['metrics'] of an unreachable host: the empty dict
EmptyMetrics == << >>

(***************************************************************************)
(* Inventory.  load_config extends self.servers with whatever the YAML     *)
(* lists hold, unvalidated.  An entry is                                    *)
(*   "dict"    a mapping with a 'name' key,                                *)
(*   "noname"  a mapping without a 'name' key (check_server reads          *)
(*             server.get('name', 'Unknown'), ssh_execute server['name']), *)
(*   "scalar"  any other YAML value, e.g. a plain host name string, on     *)
(*             which server.get raises AttributeError.                     *)
(***************************************************************************)
ServerKinds == {"dict", "noname", "scalar"}
ServerSpec == [id : 1..MaxServers, kind : ServerKinds]
\* the inventories of the model: entry k has id k
Inventories == {inv \in SeqsUpTo(ServerSpec, MaxServers) : \A k \in 1..Len(inv) : inv[k].id = k}

(***************************************************************************)
(* check_server: the status derivation, statement by statement.            *)
(***************************************************************************)
\* StatusAfterCpu with stopped containers rated as a warning too
StatusAfterCpuOrDocker(m) ==
    IF \/ m.cpu # None /\ m.cpu[1] # 0 /\ m.cpu[1] > CpuWarn * 10
       \/ m.docker # None /\ m.docker[1].stopped > 0
    THEN "warning" ELSE "healthy"

\* WarningsAfterCpu with the warning left out
WarningsAfterCpuSilent(m) == << >>

\* lines 337-340
StatusAfterCpu(m) ==
    IF m.cpu # None /\ m.cpu[1] # 0 /\ m.cpu[1] > CpuWarn * 10 THEN "warning" ELSE "healthy"
WarningsAfterCpu(m) ==
    IF m.cpu # None /\ m.cpu[1] # 0 /\ m.cpu[1] > CpuWarn * 10
    THEN << <<"High CPU", m.cpu[1]>> >> ELSE << >>

\* StatusAfterMemory with memory over the threshold rated critical
StatusAfterMemoryCritical(m, status) ==
    IF m.memory # None /\ m.memory[1].percent > MemWarn * 10 THEN "critical" ELSE status

\* lines 342-345
StatusAfterMemory(m, status) ==
    IF m.memory # None /\ m.memory[1].percent > MemWarn * 10 THEN "warning" ELSE status
WarningsAfterMemoryAtLeast(m, warnings) ==
    IF m.memory # None /\ m.memory[1].percent >= MemWarn * 10
    THEN Append(warnings, <<"High Memory", m.memory[1].percent>>) ELSE warnings
WarningsAfterMemory(m, warnings) ==
    IF m.memory # None /\ m.memory[1].percent > MemWarn * 10
    THEN Append(warnings, <<"High Memory", m.memory[1].percent>>) ELSE warnings

\* DiskRowStatus with a row at the critical threshold rated critical
DiskRowStatusAtLeast(disk) ==
    IF disk.percent >= DiskCritical THEN "critical" ELSE "warning"

\* line 351: the assignment made for one disk row over the warning threshold
DiskRowStatus(disk) ==
    IF disk.percent > DiskCritical THEN "critical" ELSE "warning"

\* lines 349-352: the for loop over the disk rows, from row i on
RECURSIVE StatusAfterDisks(_, _, _)
StatusAfterDisks(disks, i, status) ==
    IF i > Len(disks) THEN status
    ELSE StatusAfterDisks(disks, i + 1,
            IF disks[i].percent > DiskWarn THEN DiskRowStatus(disks[i]) ELSE status)
\* WarningsAfterDisks with warnings.insert(0, ...) in place of append
RECURSIVE WarningsAfterDisksPrepended(_, _, _)
WarningsAfterDisksPrepended(disks, i, warnings) ==
    IF i > Len(disks) THEN warnings
    ELSE WarningsAfterDisksPrepended(disks, i + 1,
            IF disks[i].percent > DiskWarn
            THEN << <<"High Disk", disks[i].mount, disks[i].percent>> >> \o warnings
            ELSE warnings)
RECURSIVE WarningsAfterDisks(_, _, _)
WarningsAfterDisks(disks, i, warnings) ==
    IF i > Len(disks) THEN warnings
    ELSE WarningsAfterDisks(disks, i + 1,
            IF disks[i].percent > DiskWarn
            THEN Append(warnings, <<"High Disk", disks[i].mount, disks[i].percent>>)
            ELSE warnings)

\* lines 333-355
EvaluateStatus(m) ==
    LET s2 == StatusAfterMemory(m, StatusAfterCpu(m))
    IN  IF m.disk # None THEN StatusAfterDisks(m.disk[1], 1, s2) ELSE s2
EvaluateWarnings(m) ==
    LET w2 == WarningsAfterMemory(m, WarningsAfterCpu(m))
    IN  IF m.disk # None THEN WarningsAfterDisks(m.disk[1], 1, w2) ELSE w2

\* str(x) of a float with one decimal, given in tenths
Decimal(t) == ToString(t \div 10) \o "." \o ToString(t % 10)

\* lines 340, 345 and 352: the text of a warning
WarningText(w) ==
    CASE w[1] = "High CPU" -> "High CPU: " \o Decimal(w[2]) \o "%"
      [] w[1] = "High Memory" -> "High Memory: " \o Decimal(w[2]) \o "%"
      [] w[1] = "High Disk" -> "High Disk (" \o w[2] \o "): " \o ToString(w[3]) \o "%"

\* server.get('name', 'Unknown'), line 304
\* (a named server's name is its id, 0 stands for the default 'Unknown')
ServerName(server) == IF server.kind = "dict" THEN server.id ELSE 0

\* what the collectors return when every remote command fails (ssh_execute
\* returns None): get_uptime falls back to "Unknown", the others give None
AllAbsent ==
    [uptime |-> "Unknown", cpu |-> None, memory |-> None, disk |-> None,
     load |-> None, docker |-> None, services |-> None]

\* DownResult with the collectors run before the probe is looked at
DownResultCollected(server) ==
    [name |-> ServerName(server), id |-> server.id, reachable |-> FALSE,
     status |-> "down", metrics |-> AllAbsent]

\* lines 307-320: the result of an unreachable host (it has no 'warnings' key)
DownResult(server) ==
    [name |-> ServerName(server), id |-> server.id, reachable |-> FALSE,
     status |-> "down", metrics |-> EmptyMetrics]

\* an exception leaving check_server
Raised(e) == [exception |-> e]
IsRaised(r) == "exception" \in DOMAIN r

\* ssh_execute, lines 132-146: with --verbose a failed remote command is
\* logged with server['name'], which raises KeyError on a mapping without
\* that key, also from inside the except handler of line 143
SshLogRaises(server, verbose, ssh) ==
    ssh = "fail" /\ verbose /\ server.kind = "noname"

\* check_server(server), given what the probe answers (reachable), whether
\* the remote commands of this host succeed (ssh) and what the collectors
\* return when they do (m).  The fields ip, type and timestamp of the result
\* are read by no operation and left out; id is the position of the server in
\* the inventory (the identity of the Python object).
check_server(server, verbose, reachable, ssh, m) ==
    IF server.kind = "scalar" THEN Raised("AttributeError")
    ELSE IF ~reachable THEN DownResult(server)
    ELSE IF SshLogRaises(server, verbose, ssh) THEN Raised("KeyError")
    ELSE LET got == IF ssh = "fail" THEN AllAbsent ELSE m
         IN  [name |-> ServerName(server), id |-> server.id, reachable |-> TRUE,
              status |-> EvaluateStatus(got), metrics |-> got,
              warnings |-> EvaluateWarnings(got)]

(***************************************************************************)
(* The remote commands and the collectors.  What a remote command printed  *)
(* (result.stdout) is the sequence of its lines, as split('\n') gives      *)
(* them: a last "" after the final newline.  A Python str the collectors   *)
(* handle is such a sequence too, "" the empty one.                        *)
(***************************************************************************)
\* a line the login shell of the host prints before the command's output
Banner == "Welcome to host"
D96 == "/dev/sda1 50G 48G 2G 96% /"
D86 == "/dev/sdb1 100G 86G 14G 86% /data"
D85 == "/dev/sda1 50G 42G 8G 85% /"
DBad == "/dev/sda1 50G 48G 2G - /"
D95 == "/dev/sda1 50G 47G 3G 95% /"
D97 == "/dev/sda1 100G 97G 3G 97% /"

\* what the seven remote commands may print
UptimeOutputs == {<<"up 2 days", "">>, <<"">>}
CpuOutputs == {<<"80.1", "">>, <<"80.0", "">>, <<"0.0", "">>, <<Banner, "">>, <<"">>}
MemOutputs ==
    {<<"Mem: 1000 850 150", "">>, <<"Mem: 1000 851 149", "">>, <<"Mem: 0 0 0", "">>,
     <<"Mem: 1000", "">>, <<"">>}
DiskOutputs ==
    {<<D96, D86, "">>, <<D85, "">>, <<D95, "">>, <<D97, "">>, <<DBad, "">>,
     <<Banner, D86, "">>, <<D85, DBad, "">>, <<"">>}
LoadOutputs == {<<"0.10 0.05 0.01 1/100 123", "">>, <<Banner, "">>, <<"">>}
DockerOutputs ==
    {<<"NOT_INSTALLED", "">>, <<"web|Up 2 hours|running", "db|Exited (1)|exited", "">>,
     <<"web|Up 2 hours", "">>, <<Banner, "">>, <<"">>}
ServiceOutputs ==
    {<<"active", "">>, <<"inactive", "">>, <<"not-found", "">>, <<Banner, "">>, <<"">>}

\* subprocess.run of the ssh command, lines 125-130: it exits with the
\* remote command's status having printed stdout, or times out, or cannot
\* be started
Runs(outputs) ==
    {[outcome |-> "exit", code |-> c, stdout |-> o] : c \in {0, 1}, o \in outputs}
    \cup {[outcome |-> t, code |-> 0, stdout |-> <<"">>] : t \in {"timeout", "error"}}

\* str.strip(), line 133, on the lines of a text: the blank lines at both
\* ends go (the lines of the model have no blanks at their own ends)
RECURSIVE Strip(_)
Strip(lines) ==
    IF lines = << >> THEN << >>
    ELSE IF Head(lines) = "" THEN Strip(Tail(lines))
    ELSE IF lines[Len(lines)] = "" THEN Strip(SubSeq(lines, 1, Len(lines) - 1))
    ELSE lines

\* the str of a sequence of lines
RECURSIVE Text(_)
Text(lines) ==
    IF lines = << >> THEN ""
    ELSE IF Len(lines) = 1 THEN lines[1]
    ELSE lines[1] \o "\n" \o Text(Tail(lines))

\* str.split() of one line
Words(line) ==
    CASE line = "" -> << >>
      [] line = Banner -> <<"Welcome", "to", "host">>
      [] line = "up 2 days" -> <<"up", "2", "days">>
      [] line = "Mem: 1000 850 150" -> <<"Mem:", "1000", "850", "150">>
      [] line = "Mem: 1000 851 149" -> <<"Mem:", "1000", "851", "149">>
      [] line = "Mem: 0 0 0" -> <<"Mem:", "0", "0", "0">>
      [] line = "Mem: 1000" -> <<"Mem:", "1000">>
      [] line = D96 -> <<"/dev/sda1", "50G", "48G", "2G", "96%", "/">>
      [] line = D86 -> <<"/dev/sdb1", "100G", "86G", "14G", "86%", "/data">>
      [] line = D85 -> <<"/dev/sda1", "50G", "42G", "8G", "85%", "/">>
      [] line = DBad -> <<"/dev/sda1", "50G", "48G", "2G", "-", "/">>
      [] line = D95 -> <<"/dev/sda1", "50G", "47G", "3G", "95%", "/">>
      [] line = D97 -> <<"/dev/sda1", "100G", "97G", "3G", "97%", "/">>
      [] line = "0.10 0.05 0.01 1/100 123" -> <<"0.10", "0.05", "0.01", "1/100", "123">>
      [] line = "web|Up 2 hours|running" -> <<"web|Up", "2", "hours|running">>
      [] line = "db|Exited (1)|exited" -> <<"db|Exited", "(1)|exited">>
      [] line = "web|Up 2 hours" -> <<"web|Up", "2", "hours">>
      [] OTHER -> <<line>>

\* str.split() of a text of several lines
RECURSIVE WordsOf(_)
WordsOf(lines) ==
    IF lines = << >> THEN << >> ELSE Words(Head(lines)) \o WordsOf(Tail(lines))

\* str.split('|') of one line
Fields(line) ==
    CASE line = "web|Up 2 hours|running" -> <<"web", "Up 2 hours", "running">>
      [] line = "db|Exited (1)|exited" -> <<"db", "Exited (1)", "exited">>
      [] line = "web|Up 2 hours" -> <<"web", "Up 2 hours">>
      [] OTHER -> <<line>>

\* int(s), lines 185-187 and 217: None stands for ValueError
int(s) ==
    CASE s = "0" -> Some(0) [] s = "85" -> Some(85) [] s = "86" -> Some(86)
      [] s = "95" -> Some(95) [] s = "96" -> Some(96) [] s = "97" -> Some(97) [] s = "149" -> Some(149) [] s = "150" -> Some(150)
      [] s = "7" -> Some(7) [] s = "30" -> Some(30) [] s = "-5" -> Some(0 - 5)
      [] s = "850" -> Some(850) [] s = "851" -> Some(851) [] s = "1000" -> Some(1000)
      [] OTHER -> None

\* str.rstrip('%')
RStripPercent(s) ==
    CASE s = "97%" -> "97" [] s = "96%" -> "96" [] s = "95%" -> "95" [] s = "86%" -> "86"
      [] s = "85%" -> "85" [] OTHER -> s

\* float(s) of a percentage, in tenths; None stands for ValueError
Tenths(s) ==
    CASE s = "80.1" -> Some(801) [] s = "80.0" -> Some(800) [] s = "0.0" -> Some(0)
      [] OTHER -> None

\* float(s) of a load figure, in hundredths; None stands for ValueError
Hundredths(s) ==
    CASE s = "0.10" -> Some(10) [] s = "0.05" -> Some(5) [] s = "0.01" -> Some(1)
      [] OTHER -> None

\* ssh_execute answering with the output of any command that ran
ssh_execute_any_exit(server, verbose, run) ==
    IF run.outcome = "exit"
    THEN [run |-> run, raised |-> FALSE, output |-> Some(Strip(run.stdout))]
    ELSE [run |-> run, raised |-> SshLogRaises(server, verbose, "fail"), output |-> None]

\* ssh_execute, lines 124-146, of a host with an 'ip' (a host without one
\* does not answer the probe): the call with what it returned (output, None
\* or the str) or that it raised the KeyError of its log line
ssh_execute(server, verbose, run) ==
    IF run.outcome = "exit" /\ run.code = 0
    THEN [run |-> run, raised |-> FALSE, output |-> Some(Strip(run.stdout))]
    ELSE [run |-> run, raised |-> SshLogRaises(server, verbose, "fail"), output |-> None]

\* Python's "not output" for an Optional[str]
Falsy(output) == output = None \/ output[1] = << >>

\* get_uptime, lines 161-164
get_uptime(output) == IF Falsy(output) THEN "Unknown" ELSE Text(output[1])

\* get_cpu_usage, lines 166-175
get_cpu_usage(output) == IF Falsy(output) THEN None ELSE Tenths(Text(output[1]))

\* get_memory_usage, lines 177-197: IndexError, ValueError and
\* ZeroDivisionError end in the bare except
get_memory_usage(output) ==
    IF Falsy(output) THEN None
    ELSE LET parts == WordsOf(output[1])
         IN  IF Len(parts) < 4 THEN None
             ELSE LET total == int(parts[2])
                      used == int(parts[3])
                      free == int(parts[4])
                  IN  IF total = None \/ used = None \/ free = None THEN None
                      ELSE IF total[1] = 0 THEN None
                      ELSE Some([total |-> total[1], used |-> used[1], free |-> free[1],
                                 percent |-> MemPercent(used[1], total[1])])

\* DiskRows with the loop left at the first line that does not parse
RECURSIVE DiskRowsUntilBad(_)
DiskRowsUntilBad(lines) ==
    IF lines = << >> THEN << >>
    ELSE LET parts == Words(Head(lines))
         IN  IF Len(parts) >= 6 /\ int(RStripPercent(parts[5])) # None
             THEN <<[mount |-> parts[6], percent |-> int(RStripPercent(parts[5]))[1]]>>
                  \o DiskRowsUntilBad(Tail(lines))
             ELSE << >>

\* get_disk_usage, lines 209-222: the rows of the lines that parse
RECURSIVE DiskRows(_)
DiskRows(lines) ==
    IF lines = << >> THEN << >>
    ELSE LET parts == Words(Head(lines))
             row == IF Len(parts) >= 6 /\ int(RStripPercent(parts[5])) # None
                    THEN <<[mount |-> parts[6], percent |-> int(RStripPercent(parts[5]))[1]]>>
                    ELSE << >>
         IN  row \o DiskRows(Tail(lines))

\* get_disk_usage, lines 199-224
get_disk_usage(output) ==
    IF Falsy(output) THEN None
    ELSE IF DiskRows(output[1]) = << >> THEN None ELSE Some(DiskRows(output[1]))

\* get_load_average, lines 226-240
get_load_average(output) ==
    IF Falsy(output) THEN None
    ELSE LET parts == WordsOf(output[1])
         IN  IF Len(parts) < 3 THEN None
             ELSE IF \E k \in 1..3 : Hundredths(parts[k]) = None THEN None
             ELSE Some([min1 |-> Hundredths(parts[1])[1], min5 |-> Hundredths(parts[2])[1],
                        min15 |-> Hundredths(parts[3])[1]])

\* get_docker_containers, lines 256-272: the states of the lines that hold
\* at least three fields
RECURSIVE ContainerStates(_)
ContainerStates(lines) ==
    IF lines = << >> THEN << >>
    ELSE (IF Len(Fields(Head(lines))) >= 3 THEN <<Fields(Head(lines))[3]>> ELSE << >>)
         \o ContainerStates(Tail(lines))

\* get_docker_containers, lines 242-279 (the list 'containers' of the dict
\* is read by no operation and left out)
get_docker_containers(output) ==
    IF Falsy(output) \/ Text(output[1]) = "NOT_INSTALLED" THEN None
    ELSE LET states == ContainerStates(output[1])
             running == Cardinality({k \in 1..Len(states) : states[k] = "running"})
         IN  Some([total |-> Len(states), running |-> running,
                   stopped |-> Len(states) - running])

\* the services get_services_status asks for: the first MaxServices of the
\* default list of line 284
DefaultServices == <<"ssh", "docker", "nginx", "postgresql", "mysql">>

\* get_services_status, lines 286-298: the entries of the services from k
\* on, outputs[k] being what ssh_execute returned for service k
RECURSIVE ServiceEntries(_, _)
ServiceEntries(outputs, k) ==
    IF k > Len(outputs) THEN << >>
    ELSE (IF ~Falsy(outputs[k]) /\ Text(outputs[k][1]) # "not-found"
          THEN <<[name |-> DefaultServices[k], status |-> Text(outputs[k][1]),
                  running |-> Text(outputs[k][1]) = "active"]>>
          ELSE << >>)
         \o ServiceEntries(outputs, k + 1)

\* get_services_status, lines 281-300
get_services_status(outputs) ==
    IF ServiceEntries(outputs, 1) = << >> THEN None ELSE Some(ServiceEntries(outputs, 1))

(***************************************************************************)
(* State.                                                                  *)
(***************************************************************************)
VARIABLES
    servers,       \* self.servers, the flattened inventory
    verbose,       \* self.verbose (--verbose)
    mode,          \* "once" (--once) or "continuous"
    interval,      \* --interval, in seconds
    pc,            \* where the monitor process is
    i,             \* run_checks: position of the for loop in self.servers
    results,       \* run_checks: the local list results
    now,           \* the wall clock, in whole seconds
    wake,          \* the instant time.sleep(interval) returns
    runs,          \* run_checks calls completed by the process
    current,       \* the file current.json
    history,       \* the directory history/: file name -> file
    history_file,  \* save_results: the local history_file (its name)
    exit,          \* how the process ended
    response,      \* the last answer of the dashboard's /api/current
    evalResult,    \* SpecEval: what the check_server call returned
    signalAt,      \* where the process was when SIGINT arrived, "none" before
    config,        \* the inventory file (--config) as open and yaml find it
    step,          \* check_server: the statement the call is at
    metrics,       \* check_server: the dict metrics, as filled so far
    calls,         \* the ssh_execute calls of the collector that ran last
    probed,        \* check_server: what check_server_reachable answered
    dpc,           \* api_history: "idle", or "read" while a request is served
    files,         \* api_history: the local list files (names)
    loaded,        \* api_history: the local list history, as filled so far
    hresponse,     \* the last answer of the dashboard's /api/history
    counts,        \* run_checks: the counts of the summary logged last
    cleanup_options, \* DockerCleanupScreen.cleanup_options
    keep_days,     \* DockerCleanupScreen.keep_days
    input_days,    \* the value of the Input "input-days"
    preview,       \* the text of the Static "command-preview"
    top,           \* the screen on top, "composed" before on_mount
    pushed,        \* the CommandExecuteScreen pushed last: title and command
    executed       \* the command that screen gave to subprocess.run

\* the variables of api_history
dashboard == <<dpc, files, loaded, hresponse>>

\* the variables of the Docker cleanup screen of admin.py
admin == <<cleanup_options, keep_days, input_days, preview, top, pushed, executed>>

\* the variables only one specification changes
rest == <<config, step, metrics, calls, probed, dashboard, admin>>

\* the variables the monitor's own steps leave alone
extra == <<signalAt, rest, counts>>

vars == <<servers, verbose, mode, interval, pc, i, results, now, wake, runs,
          current, history, history_file, exit, response, evalResult, extra>>

\* a path that does not exist
NoFile == [exists |-> FALSE]
\* a file that exists and holds nothing: json.load fails on it (complete is
\* FALSE), servers is what has been written of the document's list
EmptyFile == [exists |-> TRUE, complete |-> FALSE, servers |-> << >>]
\* a file holding the whole JSON document {timestamp, servers}.  The
\* document's timestamp is written and read back by no operation of the
\* monitor; the model keeps the servers only.
JsonFile(srvs) == [exists |-> TRUE, complete |-> TRUE, servers |-> srvs]

\* OpenedFile with the file opened in mode 'a': what it holds is kept
OpenedForAppend(old) == IF old.exists THEN old ELSE EmptyFile

\* open(path, 'w'), lines 400 and 408: the file is created or truncated
OpenedFile(old) == EmptyFile

\* HistoryName with later runs given smaller names
HistoryNameBackwards(t) == MaxTime - t

\* datetime.now().strftime('%Y%m%d_%H%M%S'), line 407: the name keeps the
\* clock down to the second, which is the model's clock; the names sort as
\* the seconds do
HistoryName(t) == t

NoResponse == [code |-> 0]
\* no summary logged yet
NoCounts == [healthy |-> 0, warning |-> 0, critical |-> 0, down |-> 0]
NoCall == [called |-> FALSE]

\* the metrics of a loaded host, as the collectors return them
Loaded ==
    [uptime |-> "up 2 days", cpu |-> Some(801), memory |-> None,
     disk |-> Some(<<[mount |-> "/", percent |-> 96], [mount |-> "/data", percent |-> 86]>>),
     load |-> None, docker |-> None, services |-> None]
\* what the hosts of Spec report
HostBundles == {Loaded}
Intervals == {0, 1}

(***************************************************************************)
(* Spec: the monitor process and the dashboard.                            *)
(***************************************************************************)
\* main, lines 444-445, after HealthChecker.__init__ created the output
\* directory and loaded the inventory inv
\* DockerCleanupScreen.__init__ and compose, admin.py lines 165-205: the
\* options and the widgets as constructed, the preview still empty
DefaultKeepDays == 30

DefaultOptions ==
    [containers |-> TRUE, images |-> TRUE, volumes |-> TRUE, networks |-> FALSE,
     dry_run |-> TRUE]

Composed ==
    /\ cleanup_options = DefaultOptions
    /\ keep_days = DefaultKeepDays
    /\ input_days = "30"
    /\ preview = ""
    /\ top = "composed"
    /\ pushed = None
    /\ executed = None

Started(inv) ==
    /\ servers = inv
    /\ verbose \in BOOLEAN
    /\ pc = "main"
    /\ i = 1
    /\ results = << >>
    /\ now = 0
    /\ wake = 0
    /\ runs = 0
    /\ current = NoFile
    /\ history = << >>
    /\ history_file = 0
    /\ exit = "running"
    /\ response = NoResponse
    /\ evalResult = NoCall
    /\ signalAt = "none"
    /\ config = "ok"
    /\ step = "probe"
    /\ metrics = EmptyMetrics
    /\ calls = << >>
    /\ probed = "unprobed"
    /\ dpc = "idle"
    /\ files = << >>
    /\ loaded = << >>
    /\ hresponse = NoResponse
    /\ counts = NoCounts
    /\ Composed

Init ==
    /\ mode \in {"once", "continuous"}
    /\ interval \in Intervals
    /\ \E inv \in Inventories : Len(inv) <= MaxStoreServers /\ Started(inv)

\* the wall clock advances
Tick ==
    /\ pc # "exit"
    /\ now < MaxTime
    /\ now' = now + 1
    /\ UNCHANGED <<servers, verbose, mode, interval, pc, i, results, wake, runs,
                   current, history, history_file, exit, response, evalResult, extra>>

\* run_checks, lines 366-372: entered from main (line 449 or 429)
Main ==
    /\ pc = "main"
    /\ pc' = "for"
    /\ i' = 1
    /\ results' = << >>
    /\ UNCHANGED <<servers, verbose, mode, interval, now, wake, runs,
                   current, history, history_file, exit, response, evalResult, extra>>

\* run_checks, lines 378-379: the except handler logs server.get('name'),
\* which raises AttributeError again when the entry is no mapping
HandlerRaises(server) == server.kind = "scalar"

\* ResultsAfter with results.insert(0, result) in place of append
ResultsAfterPrepend(res, r) == IF IsRaised(r) THEN res ELSE <<r>> \o res

\* run_checks, lines 375-379: the list results after one iteration whose
\* check_server call gave r (a result or an exception)
ResultsAfter(res, r) == IF IsRaised(r) THEN res ELSE Append(res, r)

\* run_checks, lines 374-379: one iteration of the for loop, over a host
\* that reports one of bundles when its remote commands work
CheckHostOf(bundles) ==
    /\ pc = "for"
    /\ i <= Len(servers)
    /\ \E reachable \in BOOLEAN, ssh \in {"ok", "fail"}, m \in bundles :
         LET r == check_server(servers[i], verbose, reachable, ssh, m)
         IN  IF IsRaised(r) /\ HandlerRaises(servers[i])
             THEN /\ pc' = "exit"
                  /\ exit' = "AttributeError"
                  /\ UNCHANGED <<i, results>>
             ELSE /\ results' = ResultsAfter(results, r)
                  /\ i' = i + 1
                  /\ UNCHANGED <<pc, exit>>
    /\ UNCHANGED <<servers, verbose, mode, interval, now, wake, runs,
                   current, history, history_file, response, evalResult, extra>>

CheckHost == CheckHostOf(HostBundles)

\* run_checks, lines 381-382: the loop is over, save_results is called
CallSaveResults ==
    /\ pc = "for"
    /\ i > Len(servers)
    /\ pc' = "open_current"
    /\ UNCHANGED <<servers, verbose, mode, interval, i, results, now, wake, runs,
                   current, history, history_file, exit, response, evalResult, extra>>

\* an OSError raised in save_results leaves run_checks, run_continuous
\* (which catches KeyboardInterrupt only, line 431) and main
PersistenceFailure ==
    /\ pc' = "exit"
    /\ exit' = "OSError"

\* save_results, line 400: open(current_file, 'w')
OpenCurrent ==
    /\ pc = "open_current"
    /\ \/ /\ current' = OpenedFile(current)
          /\ pc' = "dump_current"
          /\ UNCHANGED exit
       \/ /\ PersistenceFailure
          /\ UNCHANGED current
    /\ UNCHANGED <<servers, verbose, mode, interval, i, results, now, wake, runs,
                   history, history_file, response, evalResult, extra>>

\* json.dump and the close of the with block, lines 401-404 and 409-412:
\* the document goes after what the open file holds, which is nothing
DumpedFile(old, srvs) == JsonFile(old.servers \o srvs)

\* save_results, lines 401-404: json.dump and close
DumpCurrent ==
    /\ pc = "dump_current"
    /\ \/ /\ current' = DumpedFile(current, results)
          /\ pc' = "open_history"
          /\ UNCHANGED exit
       \/ /\ PersistenceFailure
          /\ UNCHANGED current
    /\ UNCHANGED <<servers, verbose, mode, interval, i, results, now, wake, runs,
                   history, history_file, response, evalResult, extra>>

\* save_results, lines 407-408: the name from the clock, open(history_file, 'w')
OpenHistory ==
    /\ pc = "open_history"
    /\ \/ /\ history_file' = HistoryName(now)
          /\ history' = (HistoryName(now) :>
                            OpenedFile(IF HistoryName(now) \in DOMAIN history
                                       THEN history[HistoryName(now)] ELSE NoFile))
                         @@ history
          /\ pc' = "dump_history"
          /\ UNCHANGED exit
       \/ /\ PersistenceFailure
          /\ UNCHANGED <<history, history_file>>
    /\ UNCHANGED <<servers, verbose, mode, interval, i, results, now, wake, runs,
                   current, response, evalResult, extra>>

\* save_results, lines 409-412: json.dump and close
DumpHistory ==
    /\ pc = "dump_history"
    /\ \/ /\ history' = [history EXCEPT ![history_file] = DumpedFile(@, results)]
          /\ pc' = "cleanup"
          /\ UNCHANGED exit
       \/ /\ PersistenceFailure
          /\ UNCHANGED history
    /\ UNCHANGED <<servers, verbose, mode, interval, i, results, now, wake, runs,
                   current, history_file, response, evalResult, extra>>

\* OldFiles with the slice taken from the wrong end (history_files[1000:]):
\* the names that have at least RetentionCap names before them
NewFiles(names) ==
    {n \in names : Cardinality({k \in names : k < n}) >= RetentionCap}

\* save_results, lines 415-418: history_files[:-1000] of the sorted names,
\* the names that have at least RetentionCap names after them
OldFiles(names) ==
    {n \in names : Cardinality({k \in names : k > n}) >= RetentionCap}

\* save_results, lines 415-420: the cleanup, and the return
Cleanup ==
    /\ pc = "cleanup"
    /\ history' = IF Cardinality(DOMAIN history) > RetentionCap
                  THEN [n \in DOMAIN history \ OldFiles(DOMAIN history) |-> history[n]]
                  ELSE history
    /\ runs' = runs + 1
    /\ pc' = "summary"
    /\ UNCHANGED <<servers, verbose, mode, interval, i, results, now, wake,
                   current, history_file, exit, response, evalResult, extra>>

\* RunCounts with every host that is not healthy counted as down
RunCountsDownUnhealthy(res) ==
    [healthy |-> Cardinality({k \in 1..Len(res) : res[k].status = "healthy"}),
     warning |-> Cardinality({k \in 1..Len(res) : res[k].status = "warning"}),
     critical |-> Cardinality({k \in 1..Len(res) : res[k].status = "critical"}),
     down |-> Cardinality({k \in 1..Len(res) : res[k].status # "healthy"})]

\* run_checks, lines 385-388: the four sums over results
RunCounts(res) ==
    [healthy |-> Cardinality({k \in 1..Len(res) : res[k].status = "healthy"}),
     warning |-> Cardinality({k \in 1..Len(res) : res[k].status = "warning"}),
     critical |-> Cardinality({k \in 1..Len(res) : res[k].status = "critical"}),
     down |-> Cardinality({k \in 1..Len(res) : ~res[k].reachable})]

\* run_checks, lines 384-394, back in main (line 449) or run_continuous
\* (line 430: time.sleep(interval))
Summary ==
    /\ pc = "summary"
    /\ counts' = RunCounts(results)
    /\ IF mode = "once"
       THEN /\ pc' = "exit"
            /\ exit' = "returned"
            /\ UNCHANGED wake
       ELSE /\ pc' = "sleep"
            /\ wake' = now + interval
            /\ UNCHANGED exit
    /\ UNCHANGED <<servers, verbose, mode, interval, i, results, now, runs,
                   current, history, history_file, response, evalResult, signalAt, rest>>

\* run_continuous, lines 428-430: the sleep is over, the next run_checks
SleepReturn ==
    /\ pc = "sleep"
    /\ now >= wake
    /\ runs < MaxRuns
    /\ pc' = "for"
    /\ i' = 1
    /\ results' = << >>
    /\ UNCHANGED <<servers, verbose, mode, interval, now, wake, runs,
                   current, history, history_file, exit, response, evalResult, extra>>

\* web-dashboard.py api_current, lines 551-567: what the dashboard answers
\* for a given content of current.json
ApiCurrentResponse(file) ==
    IF ~file.exists THEN [code |-> 200, servers |-> << >>]
    ELSE IF ~file.complete THEN [code |-> 500]
    ELSE [code |-> 200, servers |-> file.servers]

\* a request to /api/current, served by the dashboard process
ApiCurrent ==
    /\ response' = ApiCurrentResponse(current)
    /\ UNCHANGED <<servers, verbose, mode, interval, pc, i, results, now, wake, runs,
                   current, history, history_file, exit, evalResult, extra>>

Next ==
    \/ Tick
    \/ Main
    \/ CheckHost
    \/ CallSaveResults
    \/ OpenCurrent
    \/ DumpCurrent
    \/ OpenHistory
    \/ DumpHistory
    \/ Cleanup
    \/ Summary
    \/ SleepReturn

Spec == Init /\ [][Next]_vars

(***************************************************************************)
(* SpecDashboard: the monitor and the dashboard, two processes sharing     *)
(* the output directory.                                                   *)
(***************************************************************************)
NextDashboard == Next \/ ApiCurrent

SpecDashboard == Init /\ [][NextDashboard]_vars

(***************************************************************************)
(* SpecSignal: the monitor and a stop signal (SIGINT, Ctrl+C), which       *)
(* Python raises as KeyboardInterrupt in the statement being executed.     *)
(***************************************************************************)
\* run_continuous, lines 427-432: the try block holds the loop only; main
\* has no handler (lines 444-451)
InterruptCaught == mode = "continuous" /\ pc # "main"

\* KeyboardInterrupt raised anywhere but in the reachability probe: no
\* except clause on the way catches it (ssh_execute and run_checks catch
\* Exception, the with blocks of save_results close the file as it is), so
\* it reaches run_continuous, which logs and returns, or leaves main
Interrupt ==
    /\ pc # "exit"
    /\ signalAt = "none"
    /\ signalAt' = pc
    /\ pc' = "exit"
    /\ exit' = IF InterruptCaught THEN "stopped" ELSE "KeyboardInterrupt"
    /\ UNCHANGED <<servers, verbose, mode, interval, i, results, now, wake, runs,
                   current, history, history_file, response, evalResult, rest, counts>>

\* KeyboardInterrupt raised while check_server_reachable waits for ping
\* (lines 151-159): the bare except catches it and returns False, so
\* check_server returns the result of an unreachable host and the loop of
\* run_checks goes on
InterruptInProbe ==
    /\ pc = "for"
    /\ i <= Len(servers)
    /\ servers[i].kind # "scalar"
    /\ signalAt = "none"
    /\ signalAt' = "probe"
    /\ results' = ResultsAfter(results, check_server(servers[i], verbose, FALSE, "ok", AllAbsent))
    /\ i' = i + 1
    /\ UNCHANGED <<servers, verbose, mode, interval, pc, now, wake, runs,
                   current, history, history_file, exit, response, evalResult, rest, counts>>

NextSignal == Next \/ Interrupt \/ InterruptInProbe

SpecSignal == Init /\ [][NextSignal]_vars

(***************************************************************************)
(* SpecRun: one process started with --once.                               *)
(***************************************************************************)
InitRun ==
    /\ mode = "once"
    /\ interval \in Intervals
    /\ \E inv \in Inventories : Started(inv)

NextRun ==
    \/ Tick
    \/ Main
    \/ CheckHost
    \/ CallSaveResults
    \/ OpenCurrent
    \/ DumpCurrent
    \/ OpenHistory
    \/ DumpHistory
    \/ Cleanup
    \/ Summary

SpecRun == InitRun /\ [][NextRun]_vars

\* the statements of main, run_checks and save_results
RunStep ==
    \/ Main
    \/ CheckHost
    \/ CallSaveResults
    \/ OpenCurrent
    \/ DumpCurrent
    \/ OpenHistory
    \/ DumpHistory
    \/ Cleanup
    \/ Summary

\* SpecRun with the process going on as long as it has a next statement:
\* the probe and every remote command are subprocess.run calls with a
\* timeout (lines 125-130 and 151-155), so each iteration of the loop of
\* run_checks returns
SpecRunFair == InitRun /\ [][NextRun]_vars /\ WF_vars(RunStep)

(***************************************************************************)
(* SpecReport: one --once run over hosts of every status.                  *)
(***************************************************************************)
\* the metrics of a host with a full disk
Full ==
    [uptime |-> "up 2 days", cpu |-> None, memory |-> None,
     disk |-> Some(<<[mount |-> "/", percent |-> 96]>>),
     load |-> None, docker |-> None, services |-> None]
ReportBundles == {Loaded, Full}

CheckAnyHost == CheckHostOf(ReportBundles)

NextReport ==
    \/ Tick
    \/ Main
    \/ CheckAnyHost
    \/ CallSaveResults
    \/ OpenCurrent
    \/ DumpCurrent
    \/ OpenHistory
    \/ DumpHistory
    \/ Cleanup
    \/ Summary

SpecReport == InitRun /\ [][NextReport]_vars

(***************************************************************************)
(* SpecMain: a --once process from the first line of main, with an         *)
(* inventory file that may be missing or unreadable.                       *)
(***************************************************************************)
\* "missing": open raises FileNotFoundError; "unreadable": open or
\* yaml.safe_load raises something else (PermissionError, a YAML error), or
\* the document is no mapping ('servers' in config raises TypeError)
ConfigFiles == {"ok", "missing", "unreadable"}

\* ConfigFatal with the handler of lines 101-103 passing instead of exiting
ConfigFatalIfMissing(c) == c = "missing"

\* load_config, lines 98-103: both except clauses end in sys.exit(1)
ConfigFatal(c) == c # "ok"

\* main before line 445: nothing is constructed yet, the output directory
\* is fresh
InitMain ==
    /\ config \in ConfigFiles
    /\ servers = << >>
    /\ verbose \in BOOLEAN
    /\ mode = "once"
    /\ interval = 0
    /\ pc = "construct"
    /\ i = 1
    /\ results = << >>
    /\ now = 0
    /\ wake = 0
    /\ runs = 0
    /\ current = NoFile
    /\ history = << >>
    /\ history_file = 0
    /\ exit = "running"
    /\ response = NoResponse
    /\ evalResult = NoCall
    /\ signalAt = "none"
    /\ step = "probe"
    /\ metrics = EmptyMetrics
    /\ calls = << >>
    /\ probed = "unprobed"
    /\ dpc = "idle"
    /\ files = << >>
    /\ loaded = << >>
    /\ hresponse = NoResponse
    /\ counts = NoCounts
    /\ Composed

\* HealthChecker.__init__, lines 55-67: self.servers = [], the output
\* directories are made, load_config extends self.servers with the lists of
\* the document (inv) or ends the process
Construct ==
    /\ pc = "construct"
    /\ IF ConfigFatal(config)
       THEN /\ pc' = "exit"
            /\ exit' = "SystemExit(1)"
            /\ UNCHANGED servers
       ELSE /\ \E inv \in Inventories : servers' = inv
            /\ pc' = "main"
            /\ UNCHANGED exit
    /\ UNCHANGED <<verbose, mode, interval, i, results, now, wake, runs,
                   current, history, history_file, response, evalResult, extra>>

NextMain ==
    \/ Construct
    \/ Tick
    \/ Main
    \/ CheckHost
    \/ CallSaveResults
    \/ OpenCurrent
    \/ DumpCurrent
    \/ OpenHistory
    \/ DumpHistory
    \/ Cleanup
    \/ Summary

SpecMain == InitMain /\ [][NextMain]_vars

(***************************************************************************)
(* SpecEval: one call of check_server.                                     *)
(***************************************************************************)
InitEval ==
    /\ mode = "once"
    /\ interval = 0
    /\ \E inv \in Inventories : Len(inv) = 1 /\ Started(inv)

\* check_server(self.servers[0]), lines 302-364; probe and ssh keep what the
\* host did in the call: whether it answered the probe, and whether its
\* remote commands worked
EvalCheckServer ==
    /\ evalResult = NoCall
    /\ \E reachable \in BOOLEAN, ssh \in {"ok", "fail"}, m \in MetricBundles :
         evalResult' = [called |-> TRUE, probe |-> reachable, ssh |-> ssh,
                        result |-> check_server(servers[1], verbose, reachable, ssh, m)]
    /\ UNCHANGED <<servers, verbose, mode, interval, pc, i, results, now, wake, runs,
                   current, history, history_file, exit, response, extra>>

NextEval == EvalCheckServer

SpecEval == InitEval /\ [][NextEval]_vars

(***************************************************************************)
(* SpecHistory: the monitor, running continuously over one host, and the   *)
(* dashboard's /api/current and /api/history.                              *)
(***************************************************************************)
InitHistory ==
    /\ mode = "continuous"
    /\ interval \in Intervals
    /\ verbose = FALSE
    /\ Started(<<[id |-> 1, kind |-> "dict"]>>)

\* sorted(names, reverse=True), line 578
RECURSIVE Descending(_)
Descending(names) ==
    IF names = {} THEN << >>
    ELSE LET newest == CHOOSE n \in names : \A k \in names : k <= n
         IN  <<newest>> \o Descending(names \ {newest})

\* sorted(names), without reverse=True
RECURSIVE Ascending(_)
Ascending(names) ==
    IF names = {} THEN << >>
    ELSE LET oldest == CHOOSE n \in names : \A k \in names : k >= n
         IN  <<oldest>> \o Ascending(names \ {oldest})

\* Listing with the names sorted oldest first
ListingOldestFirst(names) ==
    SubSeq(Ascending(names), 1, IF Cardinality(names) < HistoryLimit
                                THEN Cardinality(names) ELSE HistoryLimit)

\* api_history, line 578: sorted(history_dir.glob("*.json"), reverse=True)[:100]
\* (a history directory that does not exist yet answers as an empty one,
\* lines 574-575)
Listing(names) ==
    SubSeq(Descending(names), 1, IF Cardinality(names) < HistoryLimit
                                 THEN Cardinality(names) ELSE HistoryLimit)

\* api_history, lines 577-579: the request arrives, the directory is listed
ApiHistoryGlob ==
    /\ dpc = "idle"
    /\ files' = Listing(DOMAIN history)
    /\ loaded' = << >>
    /\ hresponse' = NoResponse
    /\ dpc' = "read"
    /\ UNCHANGED <<servers, verbose, mode, interval, pc, i, results, now, wake, runs,
                   current, history, history_file, exit, response, evalResult,
                   signalAt, config, step, metrics, calls, probed, counts, admin>>

\* api_history, lines 581-583 and 586-587: the next file is opened and
\* parsed; a file deleted since the listing (FileNotFoundError) or one that
\* holds no whole document (JSONDecodeError) ends the request with a 500.
\* A record of the answer is tagged with the name of its file.
ApiHistoryRead ==
    /\ dpc = "read"
    /\ Len(loaded) < Len(files)
    /\ LET name == files[Len(loaded) + 1]
       IN  IF name \in DOMAIN history /\ history[name].complete
           THEN /\ loaded' = Append(loaded, [name |-> name, servers |-> history[name].servers])
                /\ UNCHANGED <<dpc, hresponse>>
           ELSE /\ hresponse' = [code |-> 500]
                /\ dpc' = "idle"
                /\ UNCHANGED loaded
    /\ UNCHANGED files
    /\ UNCHANGED <<servers, verbose, mode, interval, pc, i, results, now, wake, runs,
                   current, history, history_file, exit, response, evalResult,
                   signalAt, config, step, metrics, calls, probed, counts, admin>>

\* api_history, line 585: return jsonify(history)
ApiHistoryReturn ==
    /\ dpc = "read"
    /\ Len(loaded) = Len(files)
    /\ hresponse' = [code |-> 200, records |-> loaded]
    /\ dpc' = "idle"
    /\ UNCHANGED <<files, loaded>>
    /\ UNCHANGED <<servers, verbose, mode, interval, pc, i, results, now, wake, runs,
                   current, history, history_file, exit, response, evalResult,
                   signalAt, config, step, metrics, calls, probed, counts, admin>>

NextHistory ==
    \/ Next
    \/ ApiCurrent
    \/ ApiHistoryGlob
    \/ ApiHistoryRead
    \/ ApiHistoryReturn

SpecHistory == InitHistory /\ [][NextHistory]_vars

(***************************************************************************)
(* SpecCollect: one call of check_server, collector by collector, over     *)
(* what the remote commands print.                                         *)
(***************************************************************************)
\* check_server, lines 302-323: the initial result and the probe
ProbeUngated ==
    /\ step = "probe"
    /\ \E reachable \in BOOLEAN :
         IF servers[1].kind = "scalar"
         THEN /\ evalResult' = [called |-> TRUE,
                                result |-> check_server(servers[1], verbose, reachable,
                                                        "ok", AllAbsent)]
              /\ step' = "return"
              /\ UNCHANGED probed
         ELSE /\ step' = "uptime"
              /\ probed' = IF reachable THEN "yes" ELSE "no"
              /\ UNCHANGED evalResult
    /\ UNCHANGED <<metrics, calls>>
    /\ UNCHANGED <<servers, verbose, mode, interval, pc, i, results, now, wake, runs,
                   current, history, history_file, exit, response, signalAt, config, dashboard, counts, admin>>

\* check_server, lines 302-323: the initial result and the probe
Probe ==
    /\ step = "probe"
    /\ \E reachable \in BOOLEAN :
         IF servers[1].kind = "scalar"
         THEN /\ evalResult' = [called |-> TRUE,
                                result |-> check_server(servers[1], verbose, reachable,
                                                        "ok", AllAbsent)]
              /\ step' = "return"
              /\ UNCHANGED probed
         ELSE IF ~reachable
         THEN /\ evalResult' = [called |-> TRUE,
                                result |-> check_server(servers[1], verbose, FALSE,
                                                        "ok", AllAbsent)]
              /\ step' = "return"
              /\ probed' = "no"
         ELSE /\ step' = "uptime"
              /\ probed' = "yes"
              /\ UNCHANGED evalResult
    /\ UNCHANGED <<metrics, calls>>
    /\ UNCHANGED <<servers, verbose, mode, interval, pc, i, results, now, wake, runs,
                   current, history, history_file, exit, response, signalAt, config, dashboard, counts, admin>>

\* the ssh_execute calls a collector gets to make: the first that raises
\* ends it
CallsMade(all) ==
    IF \E k \in 1..Len(all) : all[k].raised
    THEN SubSeq(all, 1, CHOOSE k \in 1..Len(all) :
                            all[k].raised /\ \A j \in 1..(k - 1) : ~all[j].raised)
    ELSE all

\* check_server, lines 325-331: one collector has made the calls all and,
\* unless one of them raised, its value is stored under key
Collected(key, next, all, value) ==
    /\ calls' = CallsMade(all)
    /\ IF \E k \in 1..Len(all) : all[k].raised
       THEN /\ step' = "raised"
            /\ evalResult' = [called |-> TRUE, result |-> Raised("KeyError")]
            /\ UNCHANGED metrics
       ELSE /\ metrics' = (key :> value) @@ metrics
            /\ step' = next
            /\ UNCHANGED evalResult

\* check_server, line 325: metrics['uptime'] = self.get_uptime(server)
CollectUptime ==
    /\ step = "uptime"
    /\ \E run \in Runs(UptimeOutputs) :
         LET call == ssh_execute(servers[1], verbose, run)
         IN  Collected("uptime", "cpu", <<call>>, get_uptime(call.output))
    /\ UNCHANGED <<servers, verbose, mode, interval, pc, i, results, now, wake, runs,
                   current, history, history_file, exit, response, signalAt, config, probed, dashboard,
                   counts, admin>>

\* check_server, line 326: metrics['cpu'] = self.get_cpu_usage(server)
CollectCpu ==
    /\ step = "cpu"
    /\ \E run \in Runs(CpuOutputs) :
         LET call == ssh_execute(servers[1], verbose, run)
         IN  Collected("cpu", "memory", <<call>>, get_cpu_usage(call.output))
    /\ UNCHANGED <<servers, verbose, mode, interval, pc, i, results, now, wake, runs,
                   current, history, history_file, exit, response, signalAt, config, probed, dashboard,
                   counts, admin>>

\* check_server, line 327: metrics['memory'] = self.get_memory_usage(server)
CollectMemory ==
    /\ step = "memory"
    /\ \E run \in Runs(MemOutputs) :
         LET call == ssh_execute(servers[1], verbose, run)
         IN  Collected("memory", "disk", <<call>>, get_memory_usage(call.output))
    /\ UNCHANGED <<servers, verbose, mode, interval, pc, i, results, now, wake, runs,
                   current, history, history_file, exit, response, signalAt, config, probed, dashboard,
                   counts, admin>>

\* check_server, line 328: metrics['disk'] = self.get_disk_usage(server)
CollectDisk ==
    /\ step = "disk"
    /\ \E run \in Runs(DiskOutputs) :
         LET call == ssh_execute(servers[1], verbose, run)
         IN  Collected("disk", "load", <<call>>, get_disk_usage(call.output))
    /\ UNCHANGED <<servers, verbose, mode, interval, pc, i, results, now, wake, runs,
                   current, history, history_file, exit, response, signalAt, config, probed, dashboard,
                   counts, admin>>

\* check_server, line 329: metrics['load'] = self.get_load_average(server)
CollectLoad ==
    /\ step = "load"
    /\ \E run \in Runs(LoadOutputs) :
         LET call == ssh_execute(servers[1], verbose, run)
         IN  Collected("load", "docker", <<call>>, get_load_average(call.output))
    /\ UNCHANGED <<servers, verbose, mode, interval, pc, i, results, now, wake, runs,
                   current, history, history_file, exit, response, signalAt, config, probed, dashboard,
                   counts, admin>>

\* check_server, line 330: metrics['docker'] = self.get_docker_containers(server)
CollectDocker ==
    /\ step = "docker"
    /\ \E run \in Runs(DockerOutputs) :
         LET call == ssh_execute(servers[1], verbose, run)
         IN  Collected("docker", "services", <<call>>, get_docker_containers(call.output))
    /\ UNCHANGED <<servers, verbose, mode, interval, pc, i, results, now, wake, runs,
                   current, history, history_file, exit, response, signalAt, config, probed, dashboard,
                   counts, admin>>

\* check_server, line 331: metrics['services'] = self.get_services_status(server)
CollectServices ==
    /\ step = "services"
    /\ \E rs \in [1..MaxServices -> Runs(ServiceOutputs)] :
         LET all == [k \in 1..MaxServices |-> ssh_execute(servers[1], verbose, rs[k])]
         IN  Collected("services", "evaluate", all,
                       get_services_status([k \in 1..MaxServices |-> all[k].output]))
    /\ UNCHANGED <<servers, verbose, mode, interval, pc, i, results, now, wake, runs,
                   current, history, history_file, exit, response, signalAt, config, probed, dashboard,
                   counts, admin>>

\* check_server, lines 333-364: the verdict, and the return
Evaluate ==
    /\ step = "evaluate"
    /\ evalResult' = [called |-> TRUE,
                      result |-> check_server(servers[1], verbose, probed = "yes", "ok",
                                              metrics)]
    /\ step' = "return"
    /\ UNCHANGED <<metrics, calls>>
    /\ UNCHANGED <<servers, verbose, mode, interval, pc, i, results, now, wake, runs,
                   current, history, history_file, exit, response, signalAt, config, probed, dashboard,
                   counts, admin>>

NextCollect ==
    \/ Probe
    \/ CollectUptime
    \/ CollectCpu
    \/ CollectMemory
    \/ CollectDisk
    \/ CollectLoad
    \/ CollectDocker
    \/ CollectServices
    \/ Evaluate

SpecCollect == InitEval /\ [][NextCollect]_vars

(***************************************************************************)
(* SpecCleanup: the Docker cleanup screen of admin.py, from its            *)
(* construction until it is left, and the command screen it pushes.        *)
(***************************************************************************)
InitCleanup ==
    /\ mode = "once"
    /\ interval = 0
    /\ verbose = FALSE
    /\ Started(<< >>)

\* f"{SCRIPTS_DIR}/docker/docker-cleanup.sh", lines 240, 274 and 297, from
\* the root of the repository
ScriptPath == "scripts/docker/docker-cleanup.sh"

\* ' '.join(args)
RECURSIVE Join(_)
Join(args) ==
    IF args = << >> THEN ""
    ELSE IF Len(args) = 1 THEN args[1]
    ELSE args[1] \o " " \o Join(Tail(args))

\* the texts typed into the Input "input-days"
InputTexts == {"", "7", "abc", "3.5", "-5", "30"}

\* the ids of the checkboxes, lines 183-195, and the option each one sets,
\* lines 216-225
CheckboxIds == {"chk-containers", "chk-images", "chk-volumes", "chk-networks", "chk-dryrun"}

OptionOf(checkbox_id) ==
    CASE checkbox_id = "chk-containers" -> "containers"
      [] checkbox_id = "chk-images" -> "images"
      [] checkbox_id = "chk-volumes" -> "volumes"
      [] checkbox_id = "chk-networks" -> "networks"
      [] checkbox_id = "chk-dryrun" -> "dry_run"

\* update_preview, lines 241-258: the list args
PreviewArgs(options, days) ==
    (IF options.containers /\ options.images /\ options.volumes /\ options.networks
     THEN <<"--all">>
     ELSE (IF options.containers THEN <<"--containers">> ELSE << >>)
          \o (IF options.images THEN <<"--images">> ELSE << >>)
          \o (IF options.volumes THEN <<"--volumes">> ELSE << >>)
          \o (IF options.networks THEN <<"--networks">> ELSE << >>))
    \o <<"--keep-days " \o ToString(days)>>
    \o (IF options.dry_run THEN <<"--dry-run">> ELSE << >>)

\* update_preview, lines 260-263: the text given to the preview widget
update_preview(options, days) ==
    "$ " \o ScriptPath \o " " \o Join(PreviewArgs(options, days))

\* RunCleanupArgs without the dry-run flag
RunCleanupArgsNoDryRun(options, days) ==
    (IF options.containers /\ options.images /\ options.volumes /\ options.networks
     THEN <<"--all">>
     ELSE (IF options.containers THEN <<"--containers">> ELSE << >>)
          \o (IF options.images THEN <<"--images">> ELSE << >>)
          \o (IF options.volumes THEN <<"--volumes">> ELSE << >>)
          \o (IF options.networks THEN <<"--networks">> ELSE << >>))
    \o <<"--keep-days " \o ToString(days)>>

\* on_button_pressed, "run-cleanup", lines 275-291: the list args, built by
\* the handler's own copy of the code
RunCleanupArgs(options, days) ==
    (IF options.containers /\ options.images /\ options.volumes /\ options.networks
     THEN <<"--all">>
     ELSE (IF options.containers THEN <<"--containers">> ELSE << >>)
          \o (IF options.images THEN <<"--images">> ELSE << >>)
          \o (IF options.volumes THEN <<"--volumes">> ELSE << >>)
          \o (IF options.networks THEN <<"--networks">> ELSE << >>))
    \o <<"--keep-days " \o ToString(days)>>
    \o (IF options.dry_run THEN <<"--dry-run">> ELSE << >>)

\* on_button_pressed, line 293
RunCleanupCommand(options, days) ==
    ScriptPath \o " " \o Join(RunCleanupArgs(options, days))

\* on_mount, lines 266-268
OnMount ==
    /\ top = "composed"
    /\ top' = "cleanup"
    /\ preview' = update_preview(cleanup_options, keep_days)
    /\ UNCHANGED <<cleanup_options, keep_days, input_days, pushed, executed>>

\* on_checkbox_changed, lines 212-227; Checkbox.Changed carries the new value
\* of the checkbox, which differs from the one it had
OnCheckboxChanged ==
    /\ top = "cleanup"
    /\ \E checkbox_id \in CheckboxIds, value \in BOOLEAN :
          /\ value # cleanup_options[OptionOf(checkbox_id)]
          /\ cleanup_options' = [cleanup_options EXCEPT ![OptionOf(checkbox_id)] = value]
          /\ preview' = update_preview(cleanup_options', keep_days)
    /\ UNCHANGED <<keep_days, input_days, top, pushed, executed>>

\* on_input_changed, lines 229-236: int(event.value) if event.value else 30,
\* and 30 on ValueError
KeepDaysOf(value) ==
    IF value = "" THEN DefaultKeepDays
    ELSE IF int(value) = None THEN DefaultKeepDays
    ELSE int(value)[1]

OnInputChanged ==
    /\ top = "cleanup"
    /\ \E value \in InputTexts :
          /\ value # input_days
          /\ input_days' = value
          /\ keep_days' = KeepDaysOf(value)
          /\ preview' = update_preview(cleanup_options, keep_days')
    /\ UNCHANGED <<cleanup_options, top, pushed, executed>>

\* on_button_pressed, lines 270-302
OnButtonPressed ==
    /\ top = "cleanup"
    /\ \E button_id \in {"run-cleanup", "show-stats", "back"} :
          \/ /\ button_id = "run-cleanup"
             /\ pushed' = Some([title |-> "Docker Cleanup",
                                command |-> RunCleanupCommand(cleanup_options, keep_days)])
             /\ executed' = None
             /\ top' = "command"
          \/ /\ button_id = "show-stats"
             /\ pushed' = Some([title |-> "Docker Statistics", command |-> ScriptPath])
             /\ executed' = None
             /\ top' = "command"
          \/ /\ button_id = "back"
             /\ top' = "closed"
             /\ UNCHANGED <<pushed, executed>>
    /\ UNCHANGED <<cleanup_options, keep_days, input_days, preview>>

\* CommandExecuteScreen.on_button_pressed, lines 620-632, and
\* execute_command, lines 634-647: subprocess.run(self.command, shell=True);
\* "back" pops the screen
CommandButtonPressed ==
    /\ top = "command"
    /\ \E button_id \in {"execute", "back"} :
          \/ /\ button_id = "execute"
             /\ executed' = Some(pushed[1].command)
             /\ UNCHANGED top
          \/ /\ button_id = "back"
             /\ top' = "cleanup"
             /\ UNCHANGED executed
    /\ UNCHANGED <<cleanup_options, keep_days, input_days, preview, pushed>>

NextCleanup ==
    /\ \/ OnMount
       \/ OnCheckboxChanged
       \/ OnInputChanged
       \/ OnButtonPressed
       \/ CommandButtonPressed
    /\ UNCHANGED <<servers, verbose, mode, interval, pc, i, results, now, wake, runs,
                   current, history, history_file, exit, response, evalResult,
                   signalAt, config, step, metrics, calls, probed, dashboard, counts>>

SpecCleanup == InitCleanup /\ [][NextCleanup]_vars

(***************************************************************************)
(* Properties.                                                             *)
(***************************************************************************)
\* the CheckResult the check_server call of SpecEval returned, if it did
Returned == evalResult.called /\ ~IsRaised(evalResult.result)

\* C1: every CheckResult of check_server with reachable = FALSE has status
\* "down" and an empty metrics dict (no metric key present).
C1_UnreachableIsDown ==
    (Returned /\ ~evalResult.result.reachable) =>
        /\ evalResult.result.status = "down"
        /\ DOMAIN evalResult.result.metrics = {}

C1_Witness ==
    /\ Returned
    /\ ~evalResult.result.reachable
    /\ evalResult.result.status = "down"

Severity(status) ==
    CASE status = "healthy" -> 0 [] status = "warning" -> 1 [] status = "critical" -> 2

\* the severities of the threshold conditions the metrics m trigger
TriggeredSeverities(m) ==
    (IF m.cpu # None /\ m.cpu[1] > CpuWarn * 10 THEN {1} ELSE {})
    \cup (IF m.memory # None /\ m.memory[1].percent > MemWarn * 10 THEN {1} ELSE {})
    \cup (IF m.disk = None THEN {}
          ELSE {IF m.disk[1][k].percent > DiskCritical THEN 2 ELSE 1 :
                  k \in {j \in 1..Len(m.disk[1]) : m.disk[1][j].percent > DiskWarn}})

MaxSeverity(m) ==
    LET t == TriggeredSeverities(m) \cup {0}
    IN  CHOOSE x \in t : \A y \in t : y <= x

\* C2: for a reachable host the status is the maximum severity over all
\* triggered threshold conditions, whatever the order of the disk rows.
C2_StatusIsMaxSeverity ==
    (Returned /\ evalResult.result.reachable) =>
        Severity(evalResult.result.status) = MaxSeverity(evalResult.result.metrics)

\* the for loop of run_checks has been left
LoopLeft == pc \notin {"main", "for"}

\* C3: a host whose check fails does not keep any other host of the run from
\* being checked: once the loop is left, every inventory entry whose check
\* does not raise has its CheckResult in results.
C3_OtherHostsChecked ==
    LoopLeft =>
        \A k \in 1..Len(servers) :
            servers[k].kind = "dict" =>
                \E j \in 1..Len(results) : results[j].id = k

\* C4: the result sequence a run persists holds exactly one CheckResult for
\* every server of the inventory.
C4_OneResultPerServer ==
    (current.exists /\ current.complete) =>
        /\ Len(current.servers) = Len(servers)
        /\ \A k \in 1..Len(servers) : current.servers[k].id = k

\* save_results has just returned
SaveCompleted == pc = "summary"

\* C5: after N > RetentionCap persisted runs exactly RetentionCap history
\* records remain, for any timing of the runs.
C5_ExactlyCapRemain ==
    (SaveCompleted /\ runs > RetentionCap) =>
        Cardinality(DOMAIN history) = RetentionCap

C7_CurrentIsLastRun ==
    pc \in {"summary", "sleep"} => current = JsonFile(results)

\* a second run has replaced the different results of an earlier run
C7_Witness ==
    /\ SaveCompleted
    /\ runs >= 2
    /\ results # << >>
    /\ current = JsonFile(results)
    /\ \E n \in DOMAIN history :
          /\ n # history_file
          /\ history[n].complete
          /\ history[n].servers # << >>
          /\ history[n].servers # results

\* C8: no history record is modified or replaced after it was written: a
\* complete record that stays in the directory stays as it is.
C8_HistoryImmutable ==
    [][\A n \in DOMAIN history :
          (history[n].complete /\ n \in DOMAIN history') => history'[n] = history[n]]_vars

\* C9: whenever the dashboard reads current.json it gets a complete record,
\* never a torn or partial one (which api_current answers with code 500).
C9_NoTornRead == response.code # 500

\* C10: a persistence failure does not end a continuous run.
C10_ContinuousSurvivesOSError ==
    ~(mode = "continuous" /\ pc = "exit" /\ exit = "OSError")

\* C11: when the stop signal arrives, at whatever point of the loop,
\* run_continuous returns normally (and the loop is over).
C11_SignalEndsLoop ==
    (mode = "continuous" /\ signalAt \notin {"none", "main"}) =>
        (pc = "exit" /\ exit = "stopped")

\* a file that json.load cannot read
Torn(file) == file.exists /\ ~file.complete

\* C12: a stop signal takes effect only between runs: when the loop has
\* been stopped, the signal arrived during the sleep, and neither current.json
\* nor a history record is left partially written.
C12_StopBetweenRuns ==
    (pc = "exit" /\ exit = "stopped") =>
        /\ signalAt = "sleep"
        /\ ~Torn(current)
        /\ \A n \in DOMAIN history : ~Torn(history[n])

\* the results of srvs are in the order of the inventory (a result's id is
\* the position of its server in self.servers)
InInventoryOrder(srvs) ==
    \A j, k \in 1..Len(srvs) : j < k => srvs[j].id < srvs[k].id

\* C13: the result sequence of a run, while it is built and as it is
\* persisted, lists the CheckResults in the order of the input server list.
C13_ResultsInInventoryOrder ==
    /\ InInventoryOrder(results)
    /\ (current.exists /\ current.complete) => InInventoryOrder(current.servers)

C13_Witness ==
    /\ Len(servers) = 2
    /\ current.exists /\ current.complete
    /\ Len(current.servers) = 2
    /\ current.servers[1].id = 1
    /\ current.servers[2].id = 2

\* C19: for every reachable host, status "critical" implies that some disk
\* row has percent > DiskCritical; CPU and memory alone give warning at most.
C19_CriticalOnlyFromDisk ==
    (Returned /\ evalResult.result.reachable) =>
        LET r == evalResult.result
        IN  /\ r.status = "critical" =>
                  /\ r.metrics.disk # None
                  /\ \E k \in 1..Len(r.metrics.disk[1]) :
                        r.metrics.disk[1][k].percent > DiskCritical
            /\ r.metrics.disk = None => r.status \in {"healthy", "warning"}

\* a critical host, with CPU and memory over their thresholds as well
C19_Witness ==
    /\ Returned
    /\ evalResult.result.reachable
    /\ evalResult.result.status = "critical"
    /\ evalResult.result.metrics.cpu = Some(801)
    /\ evalResult.result.metrics.memory # None
    /\ evalResult.result.metrics.memory[1].percent = 851

\* C18: with a missing or unreadable inventory file the construction of
\* HealthChecker ends the process with exit status 1: no host is probed, no
\* run is performed and neither current.json nor a history record is written.
C18_BadInventoryIsFatal ==
    config \in {"missing", "unreadable"} =>
        /\ pc \in {"construct", "exit"}
        /\ pc = "exit" => exit = "SystemExit(1)"
        /\ servers = << >>
        /\ results = << >>
        /\ runs = 0
        /\ current = NoFile
        /\ history = << >>

C18_Witness ==
    /\ config = "unreadable"
    /\ pc = "exit"
    /\ exit = "SystemExit(1)"
    /\ current = NoFile

\* the lines a collector's remote command prints when it works
WellFormed(key) ==
    CASE key = "uptime" -> {"up 2 days"}
      [] key = "cpu" -> {"80.1", "80.0", "0.0"}
      [] key = "memory" -> {"Mem: 1000 850 150", "Mem: 1000 851 149"}
      [] key = "disk" -> {D96, D86, D85, D95, D97}
      [] key = "load" -> {"0.10 0.05 0.01 1/100 123"}
      [] key = "docker" -> {"web|Up 2 hours|running", "db|Exited (1)|exited"}
      [] key = "services" -> {"active", "inactive"}

\* the remote command failed, or printed nothing, or nothing well-formed
Unusable(key, call) ==
    \/ call.output = None
    \/ \A k \in 1..Len(call.output[1]) : call.output[1][k] \notin WellFormed(key)

\* the value is Python's None (the uptime value is always a str)
IsNone(value) == IF value \in STRING THEN FALSE ELSE value = None

CollectorKeys == {"uptime", "cpu", "memory", "disk", "load", "docker", "services"}

\* C14: a collector whose remote output is malformed or empty, or whose
\* remote command failed, does not raise, yields None for its metric and
\* leaves the metrics collected before it as they are.
C14_MalformedYieldsAbsent ==
    [][(step \in CollectorKeys /\ step' # step) =>
          /\ step' # "raised"
          /\ (\A k \in 1..Len(calls') : Unusable(step, calls'[k])) => IsNone(metrics'[step])
          /\ \A key \in DOMAIN metrics : metrics'[key] = metrics[key]]_vars

\* the ssh_execute call of a command that exited with status code having
\* printed stdout
Exited(call, code, stdout) ==
    /\ call.run.outcome = "exit"
    /\ call.run.code = code
    /\ call.run.stdout = stdout

Mem850 == [total |-> 1000, used |-> 850, free |-> 150, percent |-> 850]
Mem851 == [total |-> 1000, used |-> 851, free |-> 149, percent |-> 851]

\* the memory collector has just run on the output line
MemoryCollectedFrom(line) ==
    /\ step = "disk"
    /\ Exited(calls[1], 0, <<line, "">>)

HasWarning(r, w) == \E k \in 1..Len(r.warnings) : r.warnings[k] = w

\* C15 as stated: the memory line "Mem: 1000 850 150" is parsed to total 1000,
\* used 850, free 150, percent 85.0, and a reachable host with that metric has
\* a status of at least warning and the warning "High Memory: 85.0%".
C15_Mem850Warns ==
    /\ MemoryCollectedFrom("Mem: 1000 850 150") => metrics.memory = Some(Mem850)
    /\ (Returned /\ evalResult.result.reachable
          /\ evalResult.result.metrics.memory = Some(Mem850)) =>
            /\ evalResult.result.status \in {"warning", "critical"}
            /\ HasWarning(evalResult.result, <<"High Memory", 850>>)

\* C15, amended: the memory line "Mem: 1000 850 150" is parsed to total 1000,
\* used 850, free 150, percent 85.0; 85.0 is not over the threshold, so the
\* host gets no "High Memory" warning and the status the other metrics give
\* it.  The line with 851 used is parsed to percent 85.1 and gives a status of
\* at least warning and the warning "High Memory: 85.1%".
C15_Mem850NoWarning ==
    /\ MemoryCollectedFrom("Mem: 1000 850 150") => metrics.memory = Some(Mem850)
    /\ MemoryCollectedFrom("Mem: 1000 851 149") => metrics.memory = Some(Mem851)
    /\ (Returned /\ evalResult.result.reachable) =>
          LET r == evalResult.result
          IN  /\ r.metrics.memory = Some(Mem850) =>
                    /\ ~HasWarning(r, <<"High Memory", 850>>)
                    /\ r.status = EvaluateStatus([r.metrics EXCEPT !.memory = None])
              /\ r.metrics.memory = Some(Mem851) =>
                    /\ HasWarning(r, <<"High Memory", 851>>)
                    /\ r.status \in {"warning", "critical"}

\* memory at 85.0% and nothing else over a threshold: a healthy host
C15_Witness ==
    /\ Returned
    /\ evalResult.result.reachable
    /\ evalResult.result.metrics.memory = Some(Mem850)
    /\ evalResult.result.status = "healthy"
    /\ evalResult.result.warnings = << >>

\* C16 as stated: for a command that ran and exited non-zero ssh_execute
\* still returns the trimmed standard output.
C16_NonZeroExitReturnsOutput ==
    \A k \in 1..Len(calls) :
        (calls[k].run.outcome = "exit" /\ calls[k].run.code # 0) =>
            /\ ~calls[k].raised
            /\ calls[k].output = Some(Strip(calls[k].run.stdout))

\* C16, amended: ssh_execute returns the trimmed standard output only for a
\* command that exited with status 0; after a non-zero exit, as after a
\* timeout or a connection error, it returns None, or raises the KeyError of
\* its log line when --verbose is set and the inventory entry has no 'name'.
C16_OnlyExitZeroReturnsOutput ==
    \A k \in 1..Len(calls) :
        IF calls[k].run.outcome = "exit" /\ calls[k].run.code = 0
        THEN /\ ~calls[k].raised
             /\ calls[k].output = Some(Strip(calls[k].run.stdout))
             /\ \A j \in 1..Len(calls[k].output[1]) :
                    (j = 1 \/ j = Len(calls[k].output[1])) => calls[k].output[1][j] # ""
        ELSE /\ calls[k].output = None
             /\ calls[k].raised = (verbose /\ servers[1].kind = "noname")

\* a command that printed its output and exited with status 1: None
C16_Witness ==
    /\ Len(calls) = 1
    /\ Exited(calls[1], 1, <<"up 2 days", "">>)
    /\ ~calls[1].raised
    /\ calls[1].output = None

\* the metrics m with the four metrics no threshold reads at their defaults
Neutral(m) ==
    [m EXCEPT !.uptime = "Unknown", !.load = None, !.docker = None, !.services = None]

HasWarningOf(r, kind) == \E k \in 1..Len(r.warnings) : r.warnings[k][1] = kind

\* C20: an absent CPU, memory or disk metric triggers no condition; uptime,
\* load, containers and services change neither the status nor the warnings;
\* the NOT_INSTALLED sentinel makes the containers metric absent.
C20_OnlyThresholdMetricsCount ==
    /\ (step = "services" /\ Exited(calls[1], 0, <<"NOT_INSTALLED", "">>)) =>
          metrics.docker = None
    /\ (Returned /\ evalResult.result.reachable) =>
          LET r == evalResult.result
          IN  /\ r.status = EvaluateStatus(Neutral(r.metrics))
              /\ r.warnings = EvaluateWarnings(Neutral(r.metrics))
              /\ r.metrics.cpu = None => ~HasWarningOf(r, "High CPU")
              /\ r.metrics.memory = None => ~HasWarningOf(r, "High Memory")
              /\ r.metrics.disk = None => ~HasWarningOf(r, "High Disk")
              /\ (r.metrics.cpu = None /\ r.metrics.memory = None /\ r.metrics.disk = None) =>
                    (r.status = "healthy" /\ r.warnings = << >>)

\* CPU, memory and disk absent, stopped containers and an inactive service
\* reported: a healthy host without warnings
C20_Witness ==
    /\ Returned
    /\ evalResult.result.reachable
    /\ evalResult.result.metrics.cpu = None
    /\ evalResult.result.metrics.memory = None
    /\ evalResult.result.metrics.disk = None
    /\ evalResult.result.metrics.load # None
    /\ evalResult.result.metrics.docker # None
    /\ evalResult.result.metrics.docker[1].stopped > 0
    /\ evalResult.result.metrics.services # None
    /\ evalResult.result.status = "healthy"
    /\ evalResult.result.warnings = << >>

\* seq lists the HistoryLimit greatest names of the set names (all of them
\* when there are fewer), the greatest first
IsNewestFirst(seq, names) ==
    /\ Len(seq) = IF Cardinality(names) < HistoryLimit
                  THEN Cardinality(names) ELSE HistoryLimit
    /\ \A k \in 1..Len(seq) : seq[k] \in names
    /\ \A j, k \in 1..Len(seq) : j < k => seq[j] > seq[k]
    /\ \A n \in names :
          (\A k \in 1..Len(seq) : seq[k] # n) => \A k \in 1..Len(seq) : n < seq[k]

\* C17: api_history lists the HistoryLimit most recent history records by
\* name, newest first; what it returns are at most HistoryLimit records, those
\* of the files listed and in that order; no step of api_current or
\* api_history changes current.json or the history directory.
C17_HistoryNewestFirstReadOnly ==
    [][/\ (dpc = "idle" /\ dpc' = "read") => IsNewestFirst(files', DOMAIN history)
       /\ hresponse'.code = 200 =>
             /\ Len(hresponse'.records) <= HistoryLimit
             /\ Len(hresponse'.records) = Len(files')
             /\ \A k \in 1..Len(files') : hresponse'.records[k].name = files'[k]
             /\ \A j, k \in 1..Len(files') :
                   j < k => hresponse'.records[j].name > hresponse'.records[k].name
       /\ (dashboard' # dashboard \/ response' # response) =>
             UNCHANGED <<current, history>>]_vars

\* an answer with the HistoryLimit newest of more than HistoryLimit records
C17_Witness ==
    /\ hresponse.code = 200
    /\ Len(hresponse.records) = HistoryLimit
    /\ Cardinality(DOMAIN history) > HistoryLimit
    /\ \A n \in DOMAIN history : n <= hresponse.records[1].name
    /\ response.code = 200

\* C21: every run terminates its loop: whatever the server list and the
\* behaviour of the hosts, run_checks eventually finishes all hosts and reaches
\* save_results.
C21_RunReachesSave == <>(pc = "open_current")

\* run_checks has logged its summary and returned
SummaryLogged == pc = "sleep" \/ (pc = "exit" /\ exit = "returned")

\* C22: the counts of the summary partition the results of the run: every
\* CheckResult is counted in exactly one of healthy, warning, critical and
\* down, and the four counts sum to the number of results.
C22_CountsPartitionResults ==
    SummaryLogged =>
        /\ counts.healthy + counts.warning + counts.critical + counts.down = Len(results)
        /\ counts.down = Cardinality({k \in 1..Len(results) : results[k].status = "down"})
        /\ \A k \in 1..Len(results) :
              Cardinality({c \in {"healthy", "warning", "critical"} : results[k].status = c}
                          \cup (IF results[k].reachable THEN {} ELSE {"down"})) = 1

\* a run with a critical and a down host
C22_Witness ==
    /\ SummaryLogged
    /\ Len(results) = 2
    /\ counts.critical = 1
    /\ counts.down = 1

\* C23: within check_server the probe comes before any collector, and for a
\* host the probe reports unreachable no collector runs and no ssh_execute
\* call is made.
C23_ProbeGatesCollection ==
    /\ step = "probe" => (calls = << >> /\ DOMAIN metrics = {})
    /\ (calls # << >> \/ DOMAIN metrics # {} \/ step \in CollectorKeys \cup {"evaluate", "raised"}) =>
          probed = "yes"
    /\ probed = "no" =>
          /\ step = "return"
          /\ calls = << >>
          /\ DOMAIN metrics = {}
          /\ Returned
          /\ ~evalResult.result.reachable
          /\ DOMAIN evalResult.result.metrics = {}

C23_Witness ==
    /\ probed = "no"
    /\ step = "return"
    /\ calls = << >>
    /\ Returned
    /\ evalResult.result.status = "down"

\* the warnings of the conditions the metrics m trigger: CPU, memory, then
\* the disk rows over the threshold in the order of the rows
TriggeredWarnings(m) ==
    (IF m.cpu # None /\ m.cpu[1] > CpuWarn * 10 THEN << <<"High CPU", m.cpu[1]>> >> ELSE << >>)
    \o (IF m.memory # None /\ m.memory[1].percent > MemWarn * 10
        THEN << <<"High Memory", m.memory[1].percent>> >> ELSE << >>)
    \o (IF m.disk = None THEN << >>
        ELSE LET over == SelectSeq(m.disk[1], LAMBDA d : d.percent > DiskWarn)
             IN  [k \in 1..Len(over) |-> <<"High Disk", over[k].mount, over[k].percent>>])

\* C24: the warnings of a reachable host hold exactly one entry per triggered
\* condition, in evaluation order: CPU, memory, then one per disk row over the
\* threshold in the order of the rows.
C24_WarningsInEvaluationOrder ==
    (Returned /\ evalResult.result.reachable) =>
        evalResult.result.warnings = TriggeredWarnings(evalResult.result.metrics)

\* all four kinds of entry: CPU, memory and two disk rows
C24_Witness ==
    /\ Returned
    /\ evalResult.result.reachable
    /\ evalResult.result.warnings =
          << <<"High CPU", 801>>, <<"High Memory", 851>>,
             <<"High Disk", "/", 96>>, <<"High Disk", "/data", 86>> >>

\* C27: for every reachable host the status is healthy exactly when the
\* warnings are empty, and warning or critical exactly when a warning was
\* added.
C27_StatusAgreesWithWarnings ==
    (Returned /\ evalResult.result.reachable) =>
        /\ evalResult.result.status = "healthy" <=> evalResult.result.warnings = << >>
        /\ evalResult.result.status \in {"warning", "critical"} <=>
              Len(evalResult.result.warnings) >= 1

\* a host whose only warning is the CPU's
C27_Witness ==
    /\ Returned
    /\ evalResult.result.reachable
    /\ evalResult.result.status = "warning"
    /\ evalResult.result.warnings = << <<"High CPU", 801>> >>

DiskCollectedFrom(stdout) ==
    /\ step = "load"
    /\ Exited(calls[1], 0, stdout)

\* C25: a reachable host whose CPU and memory trigger nothing and whose disk
\* metric is a single row is healthy without warning for percent <= 85, warning
\* for 86..95 and critical above 95, with the warning "High Disk (<mount>):
\* <percent>%"; the row "/dev/sda1 100G 97G 3G 97% /" is parsed to percent 97
\* on / and gives critical with "High Disk (/): 97%".
C25_SingleDiskRowThresholds ==
    /\ DiskCollectedFrom(<<D97, "">>) => metrics.disk = Some(<<[mount |-> "/", percent |-> 97]>>)
    /\ (Returned /\ evalResult.result.reachable) =>
          LET r == evalResult.result
              m == r.metrics
          IN  (/\ m.cpu = None \/ m.cpu[1] <= CpuWarn * 10
               /\ m.memory = None \/ m.memory[1].percent <= MemWarn * 10
               /\ m.disk # None
               /\ Len(m.disk[1]) = 1) =>
                  LET row == m.disk[1][1]
                  IN  /\ row.percent <= 85 => (r.status = "healthy" /\ r.warnings = << >>)
                      /\ row.percent \in 86..95 => r.status = "warning"
                      /\ row.percent > 95 => r.status = "critical"
                      /\ row.percent > 85 =>
                            r.warnings = << <<"High Disk", row.mount, row.percent>> >>
                      /\ row = [mount |-> "/", percent |-> 97] =>
                            WarningText(r.warnings[1]) = "High Disk (/): 97%"
                      /\ row = [mount |-> "/data", percent |-> 86] =>
                            WarningText(r.warnings[1]) = "High Disk (/data): 86%"

\* the example row: critical with its warning text
C25_Witness ==
    /\ Returned
    /\ evalResult.result.reachable
    /\ evalResult.result.metrics.disk = Some(<<[mount |-> "/", percent |-> 97]>>)
    /\ evalResult.result.status = "critical"
    /\ Len(evalResult.result.warnings) = 1
    /\ WarningText(evalResult.result.warnings[1]) = "High Disk (/): 97%"

\* the row of a well-formed line of the disk command
RowOf(line) ==
    CASE line = D85 -> [mount |-> "/", percent |-> 85]
      [] line = D86 -> [mount |-> "/data", percent |-> 86]
      [] line = D95 -> [mount |-> "/", percent |-> 95]
      [] line = D96 -> [mount |-> "/", percent |-> 96]
      [] line = D97 -> [mount |-> "/", percent |-> 97]

\* C26: get_disk_usage drops the rows that do not parse one by one and keeps
\* every well-formed row of the same output, in output order; the disk metric
\* is absent only when no row parses.
C26_BadDiskRowsSkipped ==
    (step = "load" /\ calls[1].output # None) =>
        LET good == SelectSeq(calls[1].output[1], LAMBDA l : l \in WellFormed("disk"))
        IN  metrics.disk = IF good = << >> THEN None
                           ELSE Some([k \in 1..Len(good) |-> RowOf(good[k])])

\* a banner line dropped, the row after it kept
C26_Witness ==
    /\ DiskCollectedFrom(<<Banner, D86, "">>)
    /\ metrics.disk = Some(<<[mount |-> "/data", percent |-> 86]>>)

\* the history record with the greatest name
NewestHistory == CHOOSE n \in DOMAIN history : \A k \in DOMAIN history : k <= n

ArgWords ==
    <<"--all", "--containers", "--images", "--volumes", "--networks",
      "--keep-days 30", "--keep-days 7", "--keep-days -5", "--dry-run">>

KeepDaysWords == {"--keep-days 30", "--keep-days 7", "--keep-days -5"}

\* the argument lists made of some of these words
ArgLists ==
    {SelectSeq(ArgWords, LAMBDA w : w \in chosen) :
        chosen \in SUBSET {ArgWords[k] : k \in 1..Len(ArgWords)}}

\* the retention a text typed into the input stands for
ExpectedKeepDays(text) ==
    CASE text = "7" -> "--keep-days 7"
      [] text = "-5" -> "--keep-days -5"
      [] text \in {"", "abc", "3.5", "30"} -> "--keep-days 30"

\* the command of the preview is the script with the arguments args
PreviewShows(args) ==
    /\ args \in ArgLists
    /\ preview = "$ scripts/docker/docker-cleanup.sh " \o Join(args)

\* Run Cleanup has been pressed and its command screen is on top
RunCleanupPressed ==
    /\ top = "command"
    /\ pushed[1].title = "Docker Cleanup"

\* C30: after any sequence of checkbox and input events the command of the
\* preview is the command Run Cleanup hands over and the command screen
\* executes; it holds --dry-run exactly when the dry-run option is on (as it is
\* at the start), --all exactly when the four resource options are on, and one
\* --keep-days with the integer typed, 30 for an empty or non-numeric text.
C30_PreviewIsExecutedCommand ==
    /\ top = "composed" => cleanup_options.dry_run
    /\ top \in {"cleanup", "command"} =>
          \E args \in ArgLists :
             LET words == {args[k] : k \in 1..Len(args)}
             IN  /\ PreviewShows(args)
                 /\ "--dry-run" \in words <=> cleanup_options.dry_run
                 /\ "--all" \in words <=>
                       (/\ cleanup_options.containers
                        /\ cleanup_options.images
                        /\ cleanup_options.volumes
                        /\ cleanup_options.networks)
                 /\ words \cap KeepDaysWords = {ExpectedKeepDays(input_days)}
    /\ RunCleanupPressed =>
          /\ preview = "$ " \o pushed[1].command
          /\ executed # None => preview = "$ " \o executed[1]

\* a command executed after the options were changed and a text that is no
\* number was typed
C30_Witness ==
    /\ RunCleanupPressed
    /\ executed # None
    /\ input_days = "abc"
    /\ ~cleanup_options.dry_run
    /\ cleanup_options.networks
    /\ executed[1] = "scripts/docker/docker-cleanup.sh --all --keep-days 30"

====
